---------------------------- MODULE Spec2Model ----------------------------
(***************************************************************************)
(* Model of the live face-recognition page (src/src/App.js): the camera    *)
(* set-up, the frame encoder (captureFrame), the self-scheduling scan loop *)
(* (the isScanning effect and its runLoop closure), the start/stop toggle  *)
(* and the overlay projection (boxes).                                     *)
(*                                                                         *)
(* One action is one browser task or one promise continuation.  A React   *)
(* state setter is modelled by assigning the state variable; the effect    *)
(* that a committed isScanning change triggers runs in the same step as    *)
(* the click that caused it.  A promise continuation that is already       *)
(* queued (a rejection raised synchronously, an abort) runs before any     *)
(* other task: every other action is guarded by ~MicrotaskPending.         *)
(*                                                                         *)
(* Abstractions: times are not modelled; latency and lastUpdated hold the  *)
(* number of the cycle that set them (0 is null).  Percentages and the     *)
(* encoder's scale are exact fractions, not IEEE doubles.                  *)
(***************************************************************************)
EXTENDS Integers, Naturals, Sequences, FiniteSets, TLC

VARIABLES
    apiConfigured,  \* API_URL is a non-empty string (fixed at build time)
    camera,         \* initCamera: "pending", "ready" or "denied"
    streamReady,    \* useState
    isScanning,     \* useState
    isProcessing,   \* useState
    feedback,       \* useState: a message record, Msg("", 0) is ''
    matches,        \* useState: the detection batch
    videoSize,      \* useState: [width, height]
    lastUpdated,    \* useState: 0 is null, else the cycle that stamped it
    latency,        \* useState: 0 is null, else the cycle that measured it
    boxes,          \* useMemo over matches and videoSize
    native,         \* video.videoWidth / video.videoHeight
    canvas,         \* canvasRef.current.width / height
    loopRef,        \* loopRef.current: 0 is null, else the timeout handle
    timers,         \* timeouts armed and not yet fired or cleared
    abortRef,       \* abortRef.current: 0 is null, else the cycle's controller
    run,            \* number of runs of the scanning branch of the effect
    cancelled,      \* runs whose closure variable `cancelled` is true
    n,              \* number of cycles (runLoop bodies) started so far
    cyc,            \* per cycle: its phase, the run it belongs to, its error
    last            \* history: the latest cycle to end, and what it received

vars == <<apiConfigured, camera, streamReady, isScanning, isProcessing,
          feedback, matches, videoSize, lastUpdated, latency, boxes, native,
          canvas, loopRef, timers, abortRef, run, cancelled, n, cyc,
          last>>

(***************************************************************************)
(* Bounds and program constants.                                           *)
(***************************************************************************)
MaxCycles == 3          \* cycles started in one behaviour
MaxNative == 660        \* EncSpec: native sizes 1..MaxNative besides the listed ones
MaxBatchLen == 3        \* ProjSpec: detections in one batch

MAX_FRAME_WIDTH == 640
MAX_FRAME_HEIGHT == 640
CANVAS_DEFAULT_WIDTH == 300     \* a canvas element starts 300 x 150
CANVAS_DEFAULT_HEIGHT == 150

Cycles == 1..MaxCycles

(***************************************************************************)
(* Messages shown in the feedback banner.                                  *)
(***************************************************************************)
Msg(text, code) == [text |-> text, code |-> code]
NoMsg == Msg("", 0)
MsgMissingUrl == Msg("Missing VITE_RECOGNITION_API_URL in your .env file.", 0)
MsgCameraNotReady == Msg("Camera is not ready yet.", 0)
MsgCameraDenied == Msg("Unable to access camera. Please allow camera permissions.", 0)
MsgWarmingUp == Msg("Camera is warming up. Try again in a second.", 0)
MsgNoContext == Msg("Canvas context is unavailable.", 0)
MsgNoBlob == Msg("Unable to capture frame", 0)
MsgHttp(status) == Msg("Recognition request failed with", status)
MsgTransport == Msg("Failed to fetch", 0)
MsgBadJson == Msg("Unexpected token in JSON", 0)
MsgScanFailed == Msg("Scan failed. Please try again.", 0)

Size(w, h) == [width |-> w, height |-> h]


(***************************************************************************)
(* Frame encoder: the synchronous part of captureFrame (lines 77-104).     *)
(* A fraction is a pair <<numerator, denominator>> with denominator > 0.   *)
(***************************************************************************)
MinRat(a, b) == IF a[1] * b[2] <= b[1] * a[2] THEN a ELSE b

\* Mutant of Scale: the cap at 1 is forgotten, so small sources are enlarged.
ScaleUncapped(nat) ==
    MinRat(<<MAX_FRAME_WIDTH, nat.width>>, <<MAX_FRAME_HEIGHT, nat.height>>)

\* Math.min(1, MAX_FRAME_WIDTH / videoWidth, MAX_FRAME_HEIGHT / videoHeight)
Scale(nat) ==
    MinRat(<<1, 1>>, MinRat(<<MAX_FRAME_WIDTH, nat.width>>,
                            <<MAX_FRAME_HEIGHT, nat.height>>))

\* Math.round(x * p / q) for x, p >= 0 and q > 0: floor(x * p / q + 1/2)
RoundScaled(x, r) == (2 * x * r[1] + r[2]) \div (2 * r[2])

TargetWidth(nat) == RoundScaled(nat.width, Scale(nat))
TargetHeight(nat) == RoundScaled(nat.height, Scale(nat))

\* What captureFrame does before it returns: the rejection it raises at
\* once, if any, and the size it leaves the shared canvas with.
CaptureFrameSync(nat, cv, ctxOk) ==
    IF nat.width = 0 \/ nat.height = 0
    THEN [rejected |-> TRUE, err |-> MsgWarmingUp, canvas |-> cv]
    ELSE LET target == Size(TargetWidth(nat), TargetHeight(nat))
         IN  IF ~ctxOk
             THEN [rejected |-> TRUE, err |-> MsgNoContext, canvas |-> target]
             ELSE [rejected |-> FALSE, err |-> NoMsg, canvas |-> target]

(***************************************************************************)
(* Response payload (line 164-165).  A JSON value is tagged by its type; a *)
(* payload is the JSON null or an object with or without a `data` member.  *)
(***************************************************************************)
Null == [null |-> TRUE]
JsonArray(items) == [tag |-> "array", items |-> items]
JsonString(str) == [tag |-> "string", str |-> str]
JsonNull == [tag |-> "null"]
JsonUndefined == [tag |-> "undefined"]
PayloadWith(data) == [hasData |-> TRUE, data |-> data]
PayloadWithoutData == [hasData |-> FALSE]

\* payload?.data
DataOf(payload) ==
    IF payload = Null THEN JsonUndefined
    ELSE IF payload.hasData THEN payload.data ELSE JsonUndefined

\* Mutant of DetectionsOf: only a missing or null `data` is replaced; any
\* other value is wrapped into a list instead of being dropped.
DetectionsOfWrapped(payload) ==
    LET data == DataOf(payload)
    IN  IF data.tag = "array" THEN data.items
        ELSE IF data.tag = "string"
             THEN <<[id |-> Null, bbox |-> Null, label |-> data.str,
                     status_code |-> 0]>>
             ELSE <<>>

\* Array.isArray(payload?.data) ? payload.data : []
DetectionsOf(payload) ==
    LET data == DataOf(payload)
    IN  IF data.tag = "array" THEN data.items ELSE <<>>

\* response.ok
ResponseOk(status) == status >= 200 /\ status <= 299

(***************************************************************************)
(* Overlay projection: the boxes memo (lines 206-231).  A percentage       *)
(* `${(a / w) * 100}%` is the fraction 100 * a / w in lowest terms.        *)
(***************************************************************************)
RECURSIVE Gcd(_, _)
Gcd(a, b) == IF b = 0 THEN a ELSE Gcd(b, a % b)

Percent(a, w) ==
    LET g == Gcd(100 * a, w)
    IN  <<(100 * a) \div g, w \div g>>

Detection(id, bbox, label, status_code) ==
    [id |-> id, bbox |-> bbox, label |-> label, status_code |-> status_code]
BBox(x_min, y_min, x_max, y_max) ==
    [x_min |-> x_min, y_min |-> y_min, x_max |-> x_max, y_max |-> y_max]

\* Mutant of ProjectMatch: top is taken against the width.
ProjectMatchSwapped(match, vs) ==
    IF match = Null THEN Null
    ELSE IF match.bbox = Null THEN Null
    ELSE LET bounds == match.bbox
             width == bounds.x_max - bounds.x_min
             height == bounds.y_max - bounds.y_min
         IN  [id |-> IF match.id # Null THEN match.id
                     ELSE [derived |-> <<bounds.x_min, bounds.y_min>>],
              label |-> match.label,
              style |-> [left |-> Percent(bounds.x_min, vs.width),
                         top |-> Percent(bounds.y_min, vs.width),
                         width |-> Percent(width, vs.width),
                         height |-> Percent(height, vs.height)],
              status_code |-> match.status_code]

\* The callback given to matches.map: null for a match without a bbox.
ProjectMatch(match, vs) ==
    IF match = Null THEN Null
    ELSE IF match.bbox = Null THEN Null
    ELSE LET bounds == match.bbox
             width == bounds.x_max - bounds.x_min
             height == bounds.y_max - bounds.y_min
         IN  [id |-> IF match.id # Null THEN match.id
                     ELSE [derived |-> <<bounds.x_min, bounds.y_min>>],
              label |-> match.label,
              style |-> [left |-> Percent(bounds.x_min, vs.width),
                         top |-> Percent(bounds.y_min, vs.height),
                         width |-> Percent(width, vs.width),
                         height |-> Percent(height, vs.height)],
              status_code |-> match.status_code]

\* matches.map(...).filter(Boolean), or [] without a video size
Project(ms, vs) ==
    IF vs.width = 0 \/ vs.height = 0 THEN <<>>
    ELSE LET mapped == [i \in 1..Len(ms) |-> ProjectMatch(ms[i], vs)]
         IN  SelectSeq(mapped, LAMBDA b : b # Null)


(***************************************************************************)
(* Inputs of the scan loop: what the camera, the canvas and the            *)
(* recognition service can answer.                                         *)
(***************************************************************************)
LoopNativeDims == {Size(640, 480), Size(1280, 720)}

Ada == Detection([server |-> 1], BBox(64, 48, 192, 144), "Ada", 200)
NoBoxMatch == Detection(Null, Null, "", 404)
LoopBatches == {<<>>, <<Ada>>, <<NoBoxMatch, Ada>>}

BadJson == [badJson |-> TRUE]
Payloads ==
    {PayloadWith(JsonArray(b)) : b \in LoopBatches}
        \cup {PayloadWith(JsonNull), PayloadWith(JsonString("none")),
              PayloadWithoutData, Null}
Bodies == Payloads \cup {BadJson}
Statuses == {200, 503}
\* A response is a status with a body; the body of a non-2xx response is
\* never read.
NoBody == [unread |-> TRUE]
Responses ==
    {[status |-> st, body |-> b] : st \in {x \in Statuses : ResponseOk(x)},
                                  b \in Bodies}
        \cup {[status |-> st, body |-> NoBody] :
                  st \in {x \in Statuses : ~ResponseOk(x)}}

(***************************************************************************)
(* State after the first render and its effects: the camera has been       *)
(* asked for, the effect of lines 125-135 has run its idle branch.         *)
(***************************************************************************)
\* A cycle is one call of runLoop that got past line 140.  phase is where
\* it stands; run is the effect run whose closure it is; err is the error
\* captureFrame raised at once, until it is caught; seq numbers the fetch
\* calls in the order they were made (0: this cycle made none); frame is
\* the `width` and `height` that captureFrame resolved with (line 144),
\* held until the cycle ends; sizeAtStart records the videoSize the cycle
\* found when it began, held until the cycle ends.
IdleCycle == [phase |-> "idle", run |-> 0, err |-> NoMsg, seq |-> 0,
              frame |-> Size(0, 0), sizeAtStart |-> Size(0, 0)]

\* The latest cycle to end: its number, the `response.status` and `payload`
\* it held (NoStatus, NoPayload when it had none) and how it ended;
\* batchFrame is the `width` and `height` held by the cycle whose
\* setMatches call (line 165) was the latest.
NoStatus == 0
NoPayload == [none |-> TRUE]
NoneEnded ==
    [cycle |-> 0, status |-> NoStatus, payload |-> NoPayload, outcome |-> "",
     batchFrame |-> Size(0, 0)]
Ended(c, status, payload, outcome) ==
    [cycle |-> c, status |-> status, payload |-> payload, outcome |-> outcome,
     batchFrame |-> IF outcome = "success" THEN cyc[c].frame
                    ELSE last.batchFrame]

\* The cycle's function call is over: its locals are gone.
EndCycle(c) ==
    [cyc EXCEPT ![c] = [IdleCycle EXCEPT !.phase = "done", !.run = cyc[c].run,
                                         !.seq = cyc[c].seq]]

Submitted == {c \in Cycles : cyc[c].seq > 0}
Outstanding == {c \in Cycles : cyc[c].phase = "inflight"}

InitLoop ==
    /\ camera = "pending"
    /\ streamReady = FALSE
    /\ isScanning = FALSE
    /\ isProcessing = FALSE
    /\ feedback = NoMsg
    /\ matches = <<>>
    /\ videoSize = Size(0, 0)
    /\ lastUpdated = 0
    /\ latency = 0
    /\ boxes = <<>>
    /\ native = Size(0, 0)
    /\ canvas = Size(CANVAS_DEFAULT_WIDTH, CANVAS_DEFAULT_HEIGHT)
    /\ loopRef = 0
    /\ timers = {}
    /\ abortRef = 0
    /\ run = 0
    /\ cancelled = {}
    /\ n = 0
    /\ cyc = [c \in Cycles |-> IdleCycle]
    /\ last = NoneEnded

Init ==
    /\ apiConfigured \in BOOLEAN
    /\ InitLoop

\* A continuation already queued as a microtask: it runs before any task.
MicrotaskPending == \E c \in Cycles : cyc[c].phase \in {"rejected", "aborted"}

\* The boxes memo is recomputed with every render.
Render == boxes' = Project(matches', videoSize')

(***************************************************************************)
(* Pieces of runLoop (lines 139-178).                                      *)
(***************************************************************************)
\* The closure's isScanning: the effect creates runLoop only in its
\* scanning branch, so every run captured isScanning = true.
ClosureScanning(r) == r >= 1

\* Lines 140-144, up to the await: the cycle takes the next number.
BeginCycle(r, ctxOk) ==
    LET out == CaptureFrameSync(native, canvas, ctxOk)
    IN  /\ n' = n + 1
        /\ isProcessing' = TRUE
        /\ canvas' = out.canvas
        /\ cyc' = [cyc EXCEPT ![n + 1] =
                      [IdleCycle EXCEPT
                           !.phase = IF out.rejected THEN "rejected"
                                     ELSE "capturing",
                           !.run = r, !.err = out.err,
                           !.sizeAtStart = videoSize]]

\* Mutant of Finally: the next cycle is never scheduled.
FinallyWithoutReschedule(r) ==
    /\ isProcessing' = FALSE
    /\ UNCHANGED <<loopRef, timers>>

\* finally (lines 172-177)
Finally(r) ==
    /\ isProcessing' = FALSE
    /\ IF r \notin cancelled /\ ClosureScanning(r)
       THEN /\ loopRef' = r
            /\ timers' = timers \cup {r}
       ELSE UNCHANGED <<loopRef, timers>>

\* Mutant of Fail: the next cycle is scheduled on the success path only.
FailWithoutReschedule(c, err, status) ==
    /\ feedback' = IF err.text # "" THEN err ELSE MsgScanFailed
    /\ isProcessing' = FALSE
    /\ cyc' = EndCycle(c)
    /\ last' = Ended(c, status, NoPayload, "failure")
    /\ UNCHANGED <<apiConfigured, camera, streamReady, isScanning, matches,
                   videoSize, lastUpdated, latency, native, canvas, abortRef,
                   run, cancelled, n, loopRef, timers>>
    /\ Render

\* catch for an error that is not an AbortError, then finally
Fail(c, err, status) ==
    /\ feedback' = IF err.text # "" THEN err ELSE MsgScanFailed
    /\ Finally(cyc[c].run)
    /\ cyc' = EndCycle(c)
    /\ last' = Ended(c, status, NoPayload, "failure")
    /\ UNCHANGED <<apiConfigured, camera, streamReady, isScanning, matches,
                   videoSize, lastUpdated, latency, native, canvas, abortRef,
                   run, cancelled, n>>
    /\ Render

(***************************************************************************)
(* Camera (lines 29-72).                                                   *)
(***************************************************************************)
InitCamera(granted) ==
    /\ camera = "pending"
    /\ ~MicrotaskPending
    /\ IF granted
       THEN /\ camera' = "ready"
            /\ streamReady' = TRUE
            /\ UNCHANGED feedback
       ELSE /\ camera' = "denied"
            /\ feedback' = MsgCameraDenied
            /\ UNCHANGED streamReady
    /\ UNCHANGED <<apiConfigured, isScanning, isProcessing, matches, videoSize,
                   lastUpdated, latency, native, canvas, loopRef, timers,
                   abortRef, run, cancelled, n, cyc, last>>
    /\ Render

\* The stream's metadata arrives: the video reports its native size and
\* the loadedmetadata listener (updateSize) copies it.  The listener stays
\* registered for the life of the component, so it runs again each time
\* the element loads the stream's metadata; the stream keeps its size.
LoadedMetadata(d) ==
    /\ camera = "ready"
    /\ native \in {Size(0, 0), d}
    /\ ~MicrotaskPending
    /\ native' = d
    /\ videoSize' = IF d.width = 0 \/ d.height = 0 THEN videoSize ELSE d
    /\ UNCHANGED <<apiConfigured, camera, streamReady, isScanning, isProcessing,
                   feedback, matches, lastUpdated, latency, canvas, loopRef,
                   timers, abortRef, run, cancelled, n, cyc, last>>
    /\ Render

(***************************************************************************)
(* toggleScanning (lines 193-204) and the effect its state change runs     *)
(* (lines 125-191): on start the scanning branch, which calls runLoop; on  *)
(* stop the previous run's cleanup, then the idle branch.                  *)
(***************************************************************************)
StartScanning(ctxOk) ==
    /\ feedback' = NoMsg
    /\ isScanning' = TRUE
    /\ run' = run + 1
    /\ BeginCycle(run + 1, ctxOk)
    /\ UNCHANGED <<loopRef, timers, abortRef, cancelled>>

\* Mutant of StopScanning: the cleanup does not clear the pending timer.
StopScanningKeepsTimer ==
    /\ feedback' = NoMsg
    /\ isScanning' = FALSE
    /\ cancelled' = cancelled \cup {run}
    /\ timers' = timers
    /\ loopRef' = 0
    /\ cyc' = IF abortRef # 0 /\ cyc[abortRef].phase = "inflight"
              THEN [cyc EXCEPT ![abortRef].phase = "aborted"]
              ELSE cyc
    /\ abortRef' = 0
    /\ isProcessing' = FALSE
    /\ UNCHANGED <<run, n, canvas>>

StopScanning ==
    /\ feedback' = NoMsg
    /\ isScanning' = FALSE
    /\ cancelled' = cancelled \cup {run}
    /\ timers' = IF loopRef # 0 THEN timers \ {loopRef} ELSE timers
    /\ loopRef' = 0
    /\ cyc' = IF abortRef # 0 /\ cyc[abortRef].phase = "inflight"
              THEN [cyc EXCEPT ![abortRef].phase = "aborted"]
              ELSE cyc
    /\ abortRef' = 0
    /\ isProcessing' = FALSE
    /\ UNCHANGED <<run, n, canvas>>

\* Mutant of ToggleScanning: the camera check of lines 198-201 is missing.
ToggleScanningUnguarded(ctxOk) ==
    /\ ~MicrotaskPending
    /\ IF ~apiConfigured
       THEN /\ feedback' = MsgMissingUrl
            /\ UNCHANGED <<isScanning, isProcessing, loopRef, timers, abortRef,
                           run, cancelled, n, cyc, canvas>>
       ELSE IF ~isScanning
       THEN n < MaxCycles /\ StartScanning(ctxOk)
       ELSE StopScanning
    /\ UNCHANGED <<apiConfigured, camera, streamReady, matches, videoSize,
                   lastUpdated, latency, native, last>>
    /\ Render

ToggleScanning(ctxOk) ==
    /\ ~MicrotaskPending
    /\ IF ~apiConfigured
       THEN /\ feedback' = MsgMissingUrl
            /\ UNCHANGED <<isScanning, isProcessing, loopRef, timers, abortRef,
                           run, cancelled, n, cyc, canvas>>
       ELSE IF ~streamReady
       THEN /\ feedback' = MsgCameraNotReady
            /\ UNCHANGED <<isScanning, isProcessing, loopRef, timers, abortRef,
                           run, cancelled, n, cyc, canvas>>
       ELSE IF ~isScanning
       THEN n < MaxCycles /\ StartScanning(ctxOk)
       ELSE StopScanning
    /\ UNCHANGED <<apiConfigured, camera, streamReady, matches, videoSize,
                   lastUpdated, latency, native, last>>
    /\ Render

(***************************************************************************)
(* The continuations of runLoop.                                           *)
(***************************************************************************)
\* setTimeout(runLoop, POLL_DELAY_MS) fires: line 140, then a new cycle.
TimerFires(r, ctxOk) ==
    /\ r \in timers
    /\ ~MicrotaskPending
    /\ n < MaxCycles
    /\ timers' = timers \ {r}
    /\ IF r \in cancelled \/ ~ClosureScanning(r)
       THEN UNCHANGED <<isProcessing, canvas, n, cyc>>
       ELSE BeginCycle(r, ctxOk)
    /\ UNCHANGED <<apiConfigured, camera, streamReady, isScanning, feedback,
                   matches, videoSize, lastUpdated, latency, native, loopRef,
                   abortRef, run, cancelled, last>>
    /\ Render

\* captureFrame rejected before returning: catch and finally run next.
CaptureRejected(c) ==
    /\ cyc[c].phase = "rejected"
    /\ Fail(c, cyc[c].err, NoStatus)

\* canvas.toBlob calls back.  With a blob the cycle goes on to line 158:
\* it publishes the canvas size and sends the request.
CaptureDone(c, blobOk) ==
    /\ cyc[c].phase = "capturing"
    /\ ~MicrotaskPending
    /\ IF blobOk
       THEN /\ videoSize' = canvas
            /\ abortRef' = c
            /\ cyc' = [cyc EXCEPT ![c].phase = "inflight",
                                  ![c].frame = canvas,
                                  ![c].seq = Cardinality(Submitted) + 1]
            /\ UNCHANGED <<apiConfigured, camera, streamReady, isScanning,
                           isProcessing, feedback, matches, lastUpdated,
                           latency, native, canvas, loopRef, timers, run,
                           cancelled, n, last>>
            /\ Render
       ELSE Fail(c, MsgNoBlob, NoStatus)

\* Mutant of ResponseArrives: the new detections are appended to the old.
ResponseArrivesMerging(c, status, body) ==
    /\ cyc[c].phase = "inflight"
    /\ ~MicrotaskPending
    /\ IF ~ResponseOk(status) THEN Fail(c, MsgHttp(status), status)
       ELSE IF body = BadJson THEN Fail(c, MsgBadJson, status)
       ELSE /\ matches' = matches \o DetectionsOf(body)
            /\ latency' = c
            /\ lastUpdated' = c
            /\ feedback' = NoMsg
            /\ Finally(cyc[c].run)
            /\ cyc' = EndCycle(c)
            /\ last' = Ended(c, status, body, "success")
            /\ UNCHANGED <<apiConfigured, camera, streamReady, isScanning,
                           videoSize, native, canvas, abortRef, run,
                           cancelled, n>>
            /\ Render

\* The response arrives and its body is read (lines 160-168, then finally).
ResponseArrives(c, status, body) ==
    /\ cyc[c].phase = "inflight"
    /\ ~MicrotaskPending
    /\ IF ~ResponseOk(status) THEN Fail(c, MsgHttp(status), status)
       ELSE IF body = BadJson THEN Fail(c, MsgBadJson, status)
       ELSE /\ matches' = DetectionsOf(body)
            /\ latency' = c
            /\ lastUpdated' = c
            /\ feedback' = NoMsg
            /\ Finally(cyc[c].run)
            /\ cyc' = EndCycle(c)
            /\ last' = Ended(c, status, body, "success")
            /\ UNCHANGED <<apiConfigured, camera, streamReady, isScanning,
                           videoSize, native, canvas, abortRef, run,
                           cancelled, n>>
            /\ Render

\* fetch rejects without a response (the network is down).
TransportError(c) ==
    /\ cyc[c].phase = "inflight"
    /\ ~MicrotaskPending
    /\ Fail(c, MsgTransport, NoStatus)

\* Mutant of AbortSettles: line 170 is missing, an abort is an error.
AbortSettlesAsFailure(c) ==
    /\ cyc[c].phase = "aborted"
    /\ Fail(c, Msg("The user aborted a request.", 0), NoStatus)

\* The aborted fetch rejects with an AbortError: line 170, then finally.
AbortSettles(c) ==
    /\ cyc[c].phase = "aborted"
    /\ Finally(cyc[c].run)
    /\ cyc' = EndCycle(c)
    /\ last' = Ended(c, NoStatus, NoPayload, "cancelled")
    /\ UNCHANGED <<apiConfigured, camera, streamReady, isScanning, feedback,
                   matches, videoSize, lastUpdated, latency, native, canvas,
                   abortRef, run, cancelled, n>>
    /\ Render

Next ==
    \/ \E granted \in BOOLEAN : InitCamera(granted)
    \/ \E d \in LoopNativeDims : LoadedMetadata(d)
    \/ \E ctxOk \in BOOLEAN : ToggleScanning(ctxOk)
    \/ \E r \in Cycles, ctxOk \in BOOLEAN : TimerFires(r, ctxOk)
    \/ \E c \in Cycles : CaptureRejected(c)
    \/ \E c \in Cycles, blobOk \in BOOLEAN : CaptureDone(c, blobOk)
    \/ \E c \in Cycles, resp \in Responses :
           ResponseArrives(c, resp.status, resp.body)
    \/ \E c \in Cycles : TransportError(c)
    \/ \E c \in Cycles : AbortSettles(c)

Spec == Init /\ [][Next]_vars


(***************************************************************************)
(* The encoder on its own: the camera is ready with any native size, and   *)
(* the first click starts the loop, which runs captureFrame once.          *)
(***************************************************************************)
CommonResolutions == {720, 960, 1080, 1280, 1920, 2160, 3840}
EncSizes == (1..MaxNative) \cup CommonResolutions

EncInit ==
    /\ apiConfigured = TRUE
    /\ camera = "ready"
    /\ streamReady = TRUE
    /\ isScanning = FALSE
    /\ isProcessing = FALSE
    /\ feedback = NoMsg
    /\ matches = <<>>
    /\ \E w \in EncSizes, h \in EncSizes : native = Size(w, h)
    /\ videoSize = native
    /\ lastUpdated = 0
    /\ latency = 0
    /\ boxes = <<>>
    /\ canvas = Size(CANVAS_DEFAULT_WIDTH, CANVAS_DEFAULT_HEIGHT)
    /\ loopRef = 0
    /\ timers = {}
    /\ abortRef = 0
    /\ run = 0
    /\ cancelled = {}
    /\ n = 0
    /\ cyc = [c \in Cycles |-> IdleCycle]
    /\ last = NoneEnded

FirstCapture(ctxOk) == n = 0 /\ ToggleScanning(ctxOk)

EncNext == \E ctxOk \in BOOLEAN : FirstCapture(ctxOk)

EncSpec == EncInit /\ [][EncNext]_vars


(***************************************************************************)
(* The projector on its own: any batch and any video size may be set.      *)
(***************************************************************************)
Bob == Detection([server |-> 2], BBox(320, 240, 480, 360), "Bob", 200)
FullFrame == Detection(Null, BBox(0, 0, 640, 480), "", 404)
ProjDetections == {Ada, Bob, FullFrame, NoBoxMatch, Null}
ProjBatches == UNION {[1..k -> ProjDetections] : k \in 0..MaxBatchLen}
ProjGeoms ==
    {Size(0, 0), Size(640, 0), Size(0, 480), Size(640, 480), Size(640, 360),
     Size(300, 150)}

ProjInit ==
    /\ apiConfigured = TRUE
    /\ InitLoop

\* setMatches(batch), then the render
SetMatches(batch) ==
    /\ matches' = batch
    /\ UNCHANGED <<apiConfigured, camera, streamReady, isScanning, isProcessing,
                   feedback, videoSize, lastUpdated, latency, native, canvas,
                   loopRef, timers, abortRef, run, cancelled, n, cyc, last>>
    /\ Render

\* setVideoSize(size), then the render
SetVideoSize(size) ==
    /\ videoSize' = size
    /\ UNCHANGED <<apiConfigured, camera, streamReady, isScanning, isProcessing,
                   feedback, matches, lastUpdated, latency, native, canvas,
                   loopRef, timers, abortRef, run, cancelled, n, cyc, last>>
    /\ Render

ProjNext ==
    \/ \E batch \in ProjBatches : SetMatches(batch)
    \/ \E size \in ProjGeoms : SetVideoSize(size)

ProjSpec == ProjInit /\ [][ProjNext]_vars

(***************************************************************************)
(* The loop under the scheduling the browser guarantees: a queued          *)
(* continuation runs, a capture and a request settle, an armed timer       *)
(* fires.  The user is never obliged to click.                             *)
(***************************************************************************)
\* Whether the loop goes on does not depend on what a batch holds nor on
\* the camera's size: the loop is run here with one native size, one good
\* response and one refused response, besides the failures of the capture
\* and of the transport.
LiveResponses ==
    {[status |-> 200, body |-> PayloadWith(JsonArray(<<Ada>>))],
     [status |-> 503, body |-> NoBody]}

LiveNext ==
    \/ \E granted \in BOOLEAN : InitCamera(granted)
    \/ LoadedMetadata(Size(640, 480))
    \/ \E ctxOk \in BOOLEAN : ToggleScanning(ctxOk)
    \/ \E r \in Cycles, ctxOk \in BOOLEAN : TimerFires(r, ctxOk)
    \/ \E c \in Cycles : CaptureRejected(c)
    \/ \E c \in Cycles, blobOk \in BOOLEAN : CaptureDone(c, blobOk)
    \/ \E c \in Cycles, resp \in LiveResponses :
           ResponseArrives(c, resp.status, resp.body)
    \/ \E c \in Cycles : TransportError(c)
    \/ \E c \in Cycles : AbortSettles(c)

RequestSettles(c) ==
    \/ \E resp \in LiveResponses : ResponseArrives(c, resp.status, resp.body)
    \/ TransportError(c)

Fairness ==
    /\ \A c \in Cycles : WF_vars(CaptureRejected(c))
    /\ \A c \in Cycles : WF_vars(\E blobOk \in BOOLEAN : CaptureDone(c, blobOk))
    /\ \A c \in Cycles : WF_vars(RequestSettles(c))
    /\ \A c \in Cycles : WF_vars(AbortSettles(c))
    /\ \A r \in Cycles : WF_vars(\E ctxOk \in BOOLEAN : TimerFires(r, ctxOk))

LiveSpec == Init /\ [][LiveNext]_vars /\ Fairness

(***************************************************************************)
(* Claims.                                                                 *)
(***************************************************************************)

\* C1 (single-flight): in every reachable state at most one recognition
\* request is outstanding.
SingleFlight == Cardinality(Outstanding) <= 1

\* C2 (submission order): a response is never applied after the response
\* of a request that was submitted later.  lastUpdated names the cycle
\* whose response was applied last; seq is the order of the fetch calls.
AppliedInSubmissionOrder ==
    [][(lastUpdated' # lastUpdated /\ lastUpdated # 0)
          => cyc'[lastUpdated'].seq > cyc[lastUpdated].seq]_vars

\* C3 (idle is quiet): whenever the loop is Idle, no request is outstanding
\* and no delayed-cycle timer is pending.
IdleIsQuiet == ~isScanning => (Outstanding = {} /\ timers = {})

\* C4 (cancellation suppression): the step in which an aborted request's
\* rejection reaches runLoop leaves matches, feedback and lastUpdated as
\* they were.
CancellationSuppressed ==
    [][\A c \in Cycles :
          (cyc[c].phase = "aborted" /\ cyc'[c].phase = "done")
             => /\ matches' = matches
                /\ feedback' = feedback
                /\ lastUpdated' = lastUpdated]_vars

\* C4 witness: a cycle ended cancelled while an earlier batch, its
\* timestamp and an empty feedback are still in place.
CancelledWithBatchKept ==
    /\ last.outcome = "cancelled"
    /\ matches # <<>>
    /\ lastUpdated # 0
    /\ lastUpdated # last.cycle
    /\ feedback = NoMsg

\* C5 (failure resilience): when a cycle of the running loop ends in a
\* failure that is not a cancellation, the feedback becomes that failure's
\* message (with the status code for a non-2xx response), the loop stays
\* Running, and exactly one timer for the next cycle is armed, no cycle
\* being started in that step.
FailureResilience ==
    [][\A c \in Cycles :
          (/\ isScanning /\ cyc[c].run = run
           /\ cyc[c].phase # "done" /\ cyc'[c].phase = "done"
           /\ last'.cycle = c /\ last'.outcome = "failure")
             => /\ feedback' # NoMsg
                /\ cyc[c].phase = "rejected"
                      => feedback' \in {MsgWarmingUp, MsgNoContext}
                /\ cyc[c].phase = "capturing" => feedback' = MsgNoBlob
                /\ (cyc[c].phase = "inflight" /\ last'.status # NoStatus
                        /\ ~ResponseOk(last'.status))
                      => feedback'.code = last'.status
                /\ isScanning'
                /\ timers = {} /\ timers' = {run}
                /\ n' = n]_vars

\* C5 witness: the running loop's cycle got a 503, the message carries
\* the code, and one timer is armed.
Http503Rescheduled ==
    /\ last.outcome = "failure"
    /\ last.status = 503
    /\ last.cycle # 0
    /\ isScanning
    /\ feedback = MsgHttp(503)
    /\ timers = {run}

\* C6 (start guard): a click while the endpoint is not configured or the
\* camera is not ready only sets the matching message: the loop stays
\* Idle, no cycle starts, no request exists; and the loop turns Running
\* only in a step from a state where both hold.
ToggleStep == \E ctxOk \in BOOLEAN : ToggleScanning(ctxOk)

StartGuard ==
    [][/\ (ToggleStep /\ ~(apiConfigured /\ streamReady))
             => /\ feedback' = IF ~apiConfigured THEN MsgMissingUrl
                               ELSE MsgCameraNotReady
                /\ ~isScanning /\ ~isScanning'
                /\ n' = n /\ cyc' = cyc /\ canvas' = canvas
                /\ Submitted' = {}
       /\ (isScanning' /\ ~isScanning) => (apiConfigured /\ streamReady)]_vars

\* C6 witness: the click was refused for the missing endpoint address.
RefusedForMissingUrl ==
    /\ ~apiConfigured
    /\ streamReady
    /\ feedback = MsgMissingUrl
    /\ ~isScanning
    /\ n = 0

\* C7 (malformed batch): a 2xx response whose payload has `data` null, a
\* string or absent is handled exactly as the same response with an empty
\* array: the batch becomes empty, the feedback is cleared, the cycle ends
\* in success.
EmptyArrayPayload == PayloadWith(JsonArray(<<>>))
MalformedPayloads ==
    {PayloadWith(JsonNull), PayloadWith(JsonString("none")), PayloadWithoutData}

MalformedBatchTolerated ==
    [][\A c \in Cycles, status \in Statuses, body \in MalformedPayloads :
          (ResponseOk(status) /\ ResponseArrives(c, status, body))
             => /\ matches' = <<>>
                /\ feedback' = NoMsg
                /\ lastUpdated' = c
                /\ last'.outcome = "success"
                /\ boxes' = <<>>
                /\ matches' = DetectionsOf(EmptyArrayPayload)
                /\ isProcessing' = FALSE]_vars

\* C7 witness: a cycle ended in success on a payload whose `data` is a
\* string, and the batch is empty.
StringDataHandled ==
    /\ last.outcome = "success"
    /\ last.payload = PayloadWith(JsonString("none"))
    /\ matches = <<>>
    /\ feedback = NoMsg
    /\ lastUpdated = last.cycle

\* C8 (overlay projection): no box without a video size or without
\* matches; otherwise one box per match that has a bbox, in batch order,
\* with left = x_min / width, top = y_min / height, width = (x_max - x_min)
\* / width and height = (y_max - y_min) / height as percentages; 640 x 480
\* with the box (64, 48, 192, 144) gives 10%, 10%, 20%, 20%.
HasBox(m) == m # Null /\ m.bbox # Null
IsPercentOf(f, a, w) == f[2] > 0 /\ f[1] * w = 100 * a * f[2]

OverlayProjection ==
    LET boxed == SelectSeq(matches, HasBox)
    IN  /\ (videoSize.width = 0 \/ videoSize.height = 0 \/ matches = <<>>)
              => boxes = <<>>
        /\ (videoSize.width # 0 /\ videoSize.height # 0)
              => /\ Len(boxes) = Len(boxed)
                 /\ \A k \in 1..Len(boxed) :
                       LET b == boxed[k].bbox
                           st == boxes[k].style
                       IN  /\ IsPercentOf(st.left, b.x_min, videoSize.width)
                           /\ IsPercentOf(st.top, b.y_min, videoSize.height)
                           /\ IsPercentOf(st.width, b.x_max - b.x_min,
                                          videoSize.width)
                           /\ IsPercentOf(st.height, b.y_max - b.y_min,
                                          videoSize.height)
                           /\ boxes[k].label = boxed[k].label
                           /\ boxes[k].status_code = boxed[k].status_code
        /\ (matches = <<Ada>> /\ videoSize = Size(640, 480))
              => boxes[1].style = [left |-> <<10, 1>>, top |-> <<10, 1>>,
                                   width |-> <<20, 1>>, height |-> <<20, 1>>]

\* C8 witness: a batch whose first match has no bbox still yields the box
\* of the second, at 10%, 10%, 20%, 20%.
PartialBatchProjected ==
    /\ matches = <<NoBoxMatch, Ada>>
    /\ videoSize = Size(640, 480)
    /\ Len(boxes) = 1
    /\ boxes[1].style = [left |-> <<10, 1>>, top |-> <<10, 1>>,
                         width |-> <<20, 1>>, height |-> <<20, 1>>]

\* C9 (encoder bounds): once captureFrame has sized the canvas, the scale
\* is at most 1, the encoded size is within 640 x 640, and a source within
\* the bounds keeps its native size.
EncoderBounds ==
    (n >= 1)
       => /\ Scale(native)[1] <= Scale(native)[2]
          /\ canvas.width = RoundScaled(native.width, Scale(native))
          /\ canvas.height = RoundScaled(native.height, Scale(native))
          /\ canvas.width <= MAX_FRAME_WIDTH
          /\ canvas.height <= MAX_FRAME_HEIGHT
          /\ (native.width <= MAX_FRAME_WIDTH /\ native.height <= MAX_FRAME_HEIGHT)
                => canvas = native

\* C9 witness: a 1920 x 1080 source was encoded at 640 x 360.
FullHdDownscaled ==
    /\ n = 1
    /\ native = Size(1920, 1080)
    /\ canvas = Size(640, 360)

\* C10 (loop liveness): while the loop stays Running, a cycle of the
\* running loop that has ended is eventually followed by the start of a
\* new cycle (cycles below the model's bound).
LoopLiveness ==
    \A c \in 1..(MaxCycles - 1) :
        (isScanning /\ cyc[c].run = run /\ cyc[c].phase = "done" /\ n = c)
            ~> (~isScanning \/ n > c)

\* C10 witness: a cycle of the running loop failed and the same run has
\* started its next cycle.
NextCycleAfterFailure ==
    /\ isScanning
    /\ last.outcome = "failure"
    /\ last.cycle # 0
    /\ last.cycle < n
    /\ cyc[last.cycle].run = run
    /\ cyc[n].run = run
    /\ cyc[n].phase = "capturing"

\* C11 (geometry only on success): when a cycle whose capture succeeded
\* ends cancelled or in failure (its request was aborted, failed in
\* transport, or was answered with a non-2xx status or an unreadable body),
\* videoSize is what it was when that cycle started.
GeometryOnlyOnSuccess ==
    [][\A c \in Cycles :
          (/\ cyc[c].phase \in {"inflight", "aborted"}
           /\ cyc'[c].phase = "done"
           /\ last'.cycle = c
           /\ last'.outcome \in {"failure", "cancelled"})
             => videoSize' = cyc[c].sizeAtStart]_vars

\* C12 (success application): the step that ends a cycle in success sets
\* matches to exactly the list the response carried, in the service's
\* order, clears the feedback and sets latency and lastUpdated from that
\* cycle; the step that ends a cycle in failure leaves matches, latency
\* and lastUpdated as they were.
SuccessApplication ==
    [][\A c \in Cycles :
          (cyc[c].phase # "done" /\ cyc'[c].phase = "done" /\ last'.cycle = c)
             => /\ last'.outcome = "success"
                      => /\ \A b \in LoopBatches :
                                last'.payload = PayloadWith(JsonArray(b))
                                    => matches' = b
                         /\ feedback' = NoMsg
                         /\ latency' = c
                         /\ lastUpdated' = c
                /\ last'.outcome = "failure"
                      => UNCHANGED <<matches, latency, lastUpdated>>]_vars

\* C12 witness: a later cycle's one-detection response is on show, after
\* an earlier cycle had put a batch in place.
BatchReplacedWholesale ==
    /\ last.outcome = "success"
    /\ last.cycle >= 2
    /\ last.payload = PayloadWith(JsonArray(<<Ada>>))
    /\ matches = <<Ada>>
    /\ lastUpdated = last.cycle
    /\ latency = last.cycle
    /\ feedback = NoMsg
    /\ \E c \in 1..(last.cycle - 1) : cyc[c].seq > 0 /\ cyc[c].phase = "done"

\* C13 (self-scheduling): at most one delayed-cycle timer is pending; a
\* pending timer belongs to the current run of the Running loop, and no
\* cycle of that run is in progress while it is pending; a timer is armed
\* only by the step that ends a cycle in success or failure, never by a
\* step that starts a cycle or that ends a cancelled one.
InProgress(c) == cyc[c].phase \in {"capturing", "rejected", "inflight", "aborted"}

SelfScheduling ==
    [][/\ Cardinality(timers') <= 1
       /\ timers' # {} =>
              /\ isScanning'
              /\ timers' = {run'}
              /\ \A c \in Cycles : cyc'[c].run = run' => ~InProgress(c)'
       /\ \A r \in timers' \ timers :
              /\ last' # last
              /\ last'.outcome \in {"success", "failure"}
              /\ cyc[last'.cycle].run = r
              /\ n' = n]_vars

\* C13 witness: the running loop's cycle has ended and its timer is the
\* only one pending, after a stop and a restart.
OneTimerAfterRestart ==
    /\ isScanning
    /\ run >= 2
    /\ timers = {run}
    /\ last.cycle # 0
    /\ cyc[last.cycle].run = run
    /\ last.outcome \in {"success", "failure"}

\* C14 (processing indicator): isProcessing is true exactly when the loop
\* is Running and a cycle of the running loop is in progress (capturing or
\* awaiting its response).
ProcessingIndicator ==
    isProcessing <=>
        (isScanning /\ \E c \in Cycles : cyc[c].run = run /\ InProgress(c))

\* C15 (batch and geometry agree): whenever matches is not empty,
\* videoSize is the width and height of the encoded frame whose response
\* put that batch in place.
BatchGeometryCoherence == matches # <<>> => videoSize = last.batchFrame

\* C16 (quiescence while stopped): while the loop is Idle, a step taken by
\* a cycle (one that started before the stop) leaves matches, videoSize,
\* latency, lastUpdated and feedback as they were.
QuiescenceWhileStopped ==
    [][(/\ ~isScanning
        /\ \E c \in Cycles : InProgress(c) /\ cyc'[c] # cyc[c])
           => UNCHANGED <<matches, videoSize, latency, lastUpdated,
                          feedback>>]_vars

=============================================================================
